---- MODULE Spec2Model ----
(***************************************************************************)
(* Model of src/main.py: a per-user store of MAX_IMAGES_PER_USER image     *)
(* slots.  Slot metadata lives in one SQLite table (images), blobs live in *)
(* files under uploads/<user_id>/<index><ext>.  Every HTTP request is      *)
(* served by a worker thread with its own database connection, so the      *)
(* statements and file operations of concurrent requests interleave.       *)
(***************************************************************************)
EXTENDS Integers, Sequences, FiniteSets, TLC

(***************************************************************************)
(* Program constants and the bounds of the model.                          *)
(***************************************************************************)
MAX_IMAGES_PER_USER == 10

\* A set of allowed types that lets plain text through.
ALLOWED_CONTENT_TYPES_WithText ==
    {"image/png", "image/jpeg", "image/gif", "image/webp", "image/bmp", "text/plain"}

ALLOWED_CONTENT_TYPES ==
    {"image/png", "image/jpeg", "image/gif", "image/webp", "image/bmp"}

\* Requests started in one behaviour of Spec (concurrent), SpecSeq (one at a
\* time) and SpecPick (one upload on an arbitrary table).
MaxRequests == 2
MaxSeqRequests == 3
MaxPickRequests == 1

\* Clock readings per second of the modelled clock (the real one has 10^6).
TicksPerSec == 2

Users == {"u1", "u2"}
Threads == {1, 2}

\* Inputs of a request: the extension of the declared file name, the declared
\* content type, the requested index.
FileNameExts == {".png", ".txt", ""}
ContentTypes == {"image/png", "image/jpeg", "text/plain"}
Indexes == {-1, 0, MAX_IMAGES_PER_USER}

\* Number of slots already filled when the server starts: app.db and the
\* upload directory outlive the process (startup only creates what is missing).
\* The runs with requests one at a time also start one slot short of full.
InitFills == {0, MAX_IMAGES_PER_USER}
InitFillsSeq == {0, MAX_IMAGES_PER_USER - 1, MAX_IMAGES_PER_USER}

VARIABLES
    dirs,      \* user directories that exist under UPLOAD_ROOT
    files,     \* the file system: path -> file
    images,    \* committed rows of table images
    writer,    \* thread whose connection holds SQLite's write lock, 0 if none
    pending,   \* the table as the writer's open transaction sees it
    now,       \* last reading of the wall clock, in ticks
    req,       \* thread -> the request it serves
    nreq,      \* requests started
    accepted   \* history: user -> data of the uploads that returned 200, in order

vars == <<dirs, files, images, writer, pending, now, req, nreq, accepted>>

(***************************************************************************)
(* Pure helpers.                                                           *)
(***************************************************************************)
Min(S) == CHOOSE x \in S : \A y \in S : x <= y

\* datetime.now(timezone.utc).isoformat() of clock reading n, as the string's
\* three parts: the date and time to the second (fixed width), the character
\* after it ("." = 46 when there are microseconds, "+" = 43 of "+00:00" when
\* isoformat() drops a zero fraction), and the six-digit fraction.
utc_now_iso(n) ==
    <<n \div TicksPerSec,
      IF n % TicksPerSec = 0 THEN 43 ELSE 46,
      n % TicksPerSec>>

\* SQLite's comparison of two created_at TEXT values (BINARY collation):
\* lexicographic over the parts above.
TextLess(a, b) ==
    \/ a[1] < b[1]
    \/ a[1] = b[1] /\ a[2] < b[2]
    \/ a[1] = b[1] /\ a[2] = b[2] /\ a[3] < b[3]

\* os.path.join(user_dir(user_id), f"{idx}{ext}")
Path(u, i, e) == <<u, i, e>>
NoPath == <<>>

infer_extension(fext, ct) ==
    IF fext \in {".png", ".jpg", ".jpeg", ".gif", ".webp", ".bmp"} THEN fext
    ELSE IF ct = "image/png" THEN ".png"
    ELSE IF ct = "image/jpeg" THEN ".jpg"
    ELSE IF ct = "image/gif" THEN ".gif"
    ELSE IF ct = "image/webp" THEN ".webp"
    ELSE IF ct = "image/bmp" THEN ".bmp"
    ELSE ".png"

Exts == {infer_extension(f, c) : f \in FileNameExts, c \in ContentTypes}
AllPaths == {Path(u, i, e) : u \in Users, i \in 0 .. MAX_IMAGES_PER_USER, e \in Exts}

NoFile == [state |-> "absent", data |-> 0]
File(st, d) == [state |-> st, data |-> d]

\* Variant: the check of the file is left out.
isfile_NoCheck(fs, p) == TRUE

\* os.path.isfile(path)
isfile(fs, p) == p \in DOMAIN fs /\ fs[p].state # "absent"

\* A directory test that finds every user.
user_exists_Always(ds, u) == TRUE

user_exists(ds, u) == u \in ds

(***************************************************************************)
(* Table images: a set of rows; PRIMARY KEY (user_id, image_index).        *)
(* rowid is SQLite's hidden key; by is bookkeeping (the upload that        *)
(* inserted the row), not a column.                                        *)
(***************************************************************************)
Row(u, i, p, c, rid, d) ==
    [user_id |-> u, image_index |-> i, file_path |-> p, created_at |-> c,
     rowid |-> rid, by |-> d]

\* SELECT ... FROM images WHERE user_id=? ORDER BY image_index ASC
get_user_images(tbl, u) == {r \in tbl : r.user_id = u}

\* SELECT file_path FROM images WHERE user_id=? AND image_index=?
RowsAt(tbl, u, i) == {r \in tbl : r.user_id = u /\ r.image_index = i}

\* Variant: among rows of equal created_at the one of the smallest index.
OldestRow_MinIndex(rows) ==
    CHOOSE r \in rows : \A s \in rows :
        \/ TextLess(r.created_at, s.created_at)
        \/ r.created_at = s.created_at /\ r.image_index <= s.image_index

\* Variant: ORDER BY created_at DESC.
OldestRow_Newest(rows) ==
    CHOOSE r \in rows : \A s \in rows :
        \/ TextLess(s.created_at, r.created_at)
        \/ r.created_at = s.created_at /\ r.rowid >= s.rowid

\* SELECT ... WHERE user_id=? ORDER BY created_at ASC LIMIT 1: the scan of
\* idx_images_user_created(user_id, created_at) yields equal created_at in
\* rowid order.
OldestRow(rows) ==
    CHOOSE r \in rows : \A s \in rows :
        \/ TextLess(r.created_at, s.created_at)
        \/ r.created_at = s.created_at /\ r.rowid <= s.rowid

\* Variant: a full user gets the index after the last one instead of the
\* oldest row's.
pick_index_for_upload_Append(tbl, u) ==
    LET rows == get_user_images(tbl, u)
        used == {r.image_index : r \in rows}
        free == {i \in 0 .. MAX_IMAGES_PER_USER - 1 : i \notin used}
    IN  IF Cardinality(rows) < MAX_IMAGES_PER_USER
        THEN IF free # {} THEN Min(free) ELSE 0
        ELSE Cardinality(rows)

\* Variant: the index is the number of rows, not the first free one.
pick_index_for_upload_Count(tbl, u) ==
    LET rows == get_user_images(tbl, u)
    IN  IF Cardinality(rows) < MAX_IMAGES_PER_USER
        THEN Cardinality(rows)
        ELSE IF rows = {} THEN 0 ELSE OldestRow(rows).image_index

pick_index_for_upload(tbl, u) ==
    LET rows == get_user_images(tbl, u)
        used == {r.image_index : r \in rows}
        free == {i \in 0 .. MAX_IMAGES_PER_USER - 1 : i \notin used}
    IN  IF Cardinality(rows) < MAX_IMAGES_PER_USER
        THEN IF free # {} THEN Min(free) ELSE 0
        ELSE IF rows = {} THEN 0 ELSE OldestRow(rows).image_index

\* rowid of a new row: one more than the largest in the table.
NextRowid(tbl) ==
    IF tbl = {} THEN 1
    ELSE 1 + (CHOOSE m \in {r.rowid : r \in tbl} : \A r \in tbl : r.rowid <= m)

\* DELETE FROM images WHERE user_id=? AND image_index=?
DeleteAt(tbl, u, i) == tbl \ RowsAt(tbl, u, i)

\* The PRIMARY KEY check of INSERT.
InsertConflicts(tbl, u, i) == RowsAt(tbl, u, i) # {}

\* The table as thread t's connection reads it: its own open transaction, or
\* the committed rows.
View(t) == IF writer = t THEN pending ELSE images

\* A write statement of t can take (or already holds) the write lock.
CanWrite(t) == writer \in {0, t}

(***************************************************************************)
(* Requests.                                                               *)
(***************************************************************************)
Idle ==
    [op |-> "idle", pc |-> "idle", user_id |-> "", ext |-> "", data |-> 0,
     idx |-> -1, old |-> NoPath, path |-> NoPath, fd |-> "none", result |-> "none",
     body |-> NoFile, attempts |-> 0, ct |-> "", indexes |-> {}, rm |-> ""]

\* A worker is free before its first request and once it has responded; its
\* last response stays in req until it takes the next request.
IsFree(t) == req[t].pc \in {"idle", "done"}
AllFree == \A t \in Threads : IsFree(t)

\* The pool hands a new request to a free worker; which one makes no
\* difference, so it is the first.
Free(t) == IsFree(t) /\ \A s \in Threads : IsFree(s) => t <= s

\* The response of a request that ends here; the connection's context
\* manager rolls back what it had not committed.
Finish(t, res) ==
    /\ req' = [req EXCEPT ![t].pc = "done", ![t].result = res, ![t].fd = "none"]
    /\ writer' = IF writer = t THEN 0 ELSE writer
    /\ pending' = IF writer = t THEN images ELSE pending

(***************************************************************************)
(* Initial states: the table left by k uploads made one at a time.         *)
(***************************************************************************)
FilledRows(u, k) ==
    {Row(u, i, Path(u, i, ".png"), utc_now_iso(i + 1), i + 1, i + 1) : i \in 0 .. k - 1}

FilledFiles(tbl) ==
    [p \in AllPaths |->
        IF \E r \in tbl : r.file_path = p
        THEN File("complete", (CHOOSE r \in tbl : r.file_path = p).by)
        ELSE NoFile]

InitWith(tbl, ds, n) ==
    /\ dirs = ds
    /\ images = tbl
    /\ files = FilledFiles(tbl)
    /\ writer = 0
    /\ pending = tbl
    /\ now = n
    /\ req = [t \in Threads |-> Idle]
    /\ nreq = 0
    /\ accepted = [u \in Users |->
                     IF u = "u1" THEN [i \in 1 .. Cardinality(tbl) |-> i] ELSE <<>>]

Init ==
    \E k \in InitFills :
        InitWith(FilledRows("u1", k), IF k = 0 THEN {} ELSE {"u1"}, k)

InitSeq ==
    \E k \in InitFillsSeq :
        InitWith(FilledRows("u1", k), IF k = 0 THEN {} ELSE {"u1"}, k)

(***************************************************************************)
(* POST /users/{user_id}                                                   *)
(***************************************************************************)
create_user(u) ==
    /\ dirs' = dirs \cup {u}
    /\ UNCHANGED <<files, images, writer, pending, now, req, nreq, accepted>>

(***************************************************************************)
(* POST /users/{user_id}/images, statement by statement.                   *)
(***************************************************************************)
\* Lines 173-186: the checks before the database is opened.
UploadStart(t, u, fext, ct) ==
    /\ Free(t)
    /\ nreq' = nreq + 1
    /\ LET r0 == [Idle EXCEPT !.op = "upload", !.user_id = u, !.ct = ct,
                              !.data = nreq + 1 + MAX_IMAGES_PER_USER]
       IN  IF ~user_exists(dirs, u)
           THEN req' = [req EXCEPT ![t] = [r0 EXCEPT !.pc = "done", !.result = "UserNotFound"]]
           ELSE IF ct \notin ALLOWED_CONTENT_TYPES
           THEN req' = [req EXCEPT ![t] = [r0 EXCEPT !.pc = "done", !.result = "UnsupportedType"]]
           ELSE req' = [req EXCEPT ![t] =
                           [r0 EXCEPT !.pc = "pick", !.ext = infer_extension(fext, ct)]]
    /\ UNCHANGED <<dirs, files, images, writer, pending, now, accepted>>

\* Line 189; attempts counts the times the request has chosen an index.  The
\* content type is not read again after line 186.
UploadPick(t) ==
    /\ req[t].op = "upload" /\ req[t].pc = "pick"
    /\ req' = [req EXCEPT ![t].idx = pick_index_for_upload(View(t), req[t].user_id),
                          ![t].attempts = @ + 1,
                          ![t].ct = "",
                          ![t].pc = "del_select"]
    /\ UNCHANGED <<dirs, files, images, writer, pending, now, nreq, accepted>>

\* A delete_existing_at_index that deletes the row before it removes the file.
UploadDelSelect_RowFirst(t) ==
    /\ req[t].op = "upload" /\ req[t].pc = "del_select"
    /\ CanWrite(t)
    /\ LET rows == RowsAt(View(t), req[t].user_id, req[t].idx)
       IN  IF rows = {}
           THEN /\ req' = [req EXCEPT ![t].pc = "open"]
                /\ UNCHANGED <<writer, pending>>
           ELSE /\ req' = [req EXCEPT ![t].pc = "del_file",
                                      ![t].old = (CHOOSE r \in rows : TRUE).file_path]
                /\ pending' = DeleteAt(View(t), req[t].user_id, req[t].idx)
                /\ writer' = t
    /\ UNCHANGED <<dirs, files, images, now, nreq, accepted>>

\* Lines 111-119: delete_existing_at_index reads the row of the index.
UploadDelSelect(t) ==
    /\ req[t].op = "upload" /\ req[t].pc = "del_select"
    /\ LET rows == RowsAt(View(t), req[t].user_id, req[t].idx)
       IN  IF rows = {}
           THEN req' = [req EXCEPT ![t].pc = "open"]
           ELSE req' = [req EXCEPT ![t].pc = "del_file",
                                   ![t].old = (CHOOSE r \in rows : TRUE).file_path]
    /\ UNCHANGED <<dirs, files, images, writer, pending, now, nreq, accepted>>

\* A removal whose failure, or a file that is not there, ends the request.
UploadDelFile_Raise(t, ok) ==
    /\ req[t].op = "upload" /\ req[t].pc = "del_file"
    /\ IF ok /\ isfile(files, req[t].old)
       THEN /\ files' = [files EXCEPT ![req[t].old] = NoFile]
            /\ req' = [req EXCEPT ![t].pc = "del_row", ![t].rm = "removed"]
            /\ UNCHANGED <<writer, pending>>
       ELSE /\ req' = [req EXCEPT ![t].pc = "done", ![t].result = "IOError",
                                   ![t].rm = IF isfile(files, req[t].old)
                                             THEN "failed" ELSE "missing"]
            /\ writer' = IF writer = t THEN 0 ELSE writer
            /\ pending' = IF writer = t THEN images ELSE pending
            /\ UNCHANGED files
    /\ UNCHANGED <<dirs, images, now, nreq, accepted>>

\* Lines 120-125: the old file is removed if it is there; an OSError (ok =
\* FALSE) is swallowed.  A thread that has the file open keeps writing to the
\* unlinked inode.  rm records what happened to the old file.
UploadDelFile(t, ok) ==
    /\ req[t].op = "upload" /\ req[t].pc = "del_file"
    /\ LET p == req[t].old
           gone == ok /\ isfile(files, p)
       IN  /\ files' = IF gone THEN [files EXCEPT ![p] = NoFile] ELSE files
           /\ req' = [s \in Threads |->
                        IF s = t
                        THEN [req[t] EXCEPT !.pc = "del_row",
                                            !.rm = IF ~isfile(files, p) THEN "missing"
                                                   ELSE IF ok THEN "removed" ELSE "failed"]
                        ELSE IF gone /\ req[s].path = p /\ req[s].fd \in {"linked", "shared"}
                        THEN [req[s] EXCEPT !.fd = "unlinked"]
                        ELSE req[s]]
    /\ UNCHANGED <<dirs, images, writer, pending, now, nreq, accepted>>

\* Line 127: the DELETE opens the connection's transaction and takes the
\* write lock of the database file.
UploadDelRow(t) ==
    /\ req[t].op = "upload" /\ req[t].pc = "del_row"
    /\ CanWrite(t)
    /\ pending' = DeleteAt(View(t), req[t].user_id, req[t].idx)
    /\ writer' = t
    /\ req' = [req EXCEPT ![t].pc = "open"]
    /\ UNCHANGED <<dirs, files, images, now, nreq, accepted>>

\* A write statement that waits for another connection's lock longer than
\* the connection's timeout raises OperationalError (database is locked).
UploadLocked(t) ==
    /\ req[t].op = "upload" /\ req[t].pc \in {"del_row", "insert"}
    /\ ~CanWrite(t)
    /\ Finish(t, "DatabaseLocked")
    /\ UNCHANGED <<dirs, files, images, now, nreq, accepted>>

\* Variant: the row is inserted and committed before the file is written.
UploadOpen_InsertFirst(t, ok) ==
    /\ req[t].op = "upload" /\ req[t].pc = "open"
    /\ LET p == Path(req[t].user_id, req[t].idx, req[t].ext)
           row == Row(req[t].user_id, req[t].idx, p, utc_now_iso(now),
                      NextRowid(images), req[t].data)
       IN  /\ images' = DeleteAt(images, req[t].user_id, req[t].idx) \cup {row}
           /\ pending' = images'
           /\ writer' = 0
           /\ files' = IF ok THEN [files EXCEPT ![p] = File("partial", req[t].data)] ELSE files
           /\ req' = [req EXCEPT ![t].pc = "copy", ![t].path = p, ![t].fd = "linked"]
    /\ UNCHANGED <<dirs, now, nreq, accepted>>

\* Lines 194-198: open(path, "wb") creates or truncates the target file.
UploadOpen(t, ok) ==
    /\ req[t].op = "upload" /\ req[t].pc = "open"
    /\ LET p == Path(req[t].user_id, req[t].idx, req[t].ext)
           others == {s \in Threads \ {t} :
                        req[s].path = p /\ req[s].pc = "copy" /\ req[s].fd \in {"linked", "shared"}}
       IN  IF ok
           THEN /\ files' = [files EXCEPT ![p] = File("partial", req[t].data)]
                /\ req' = [s \in Threads |->
                             IF s = t
                             THEN [req[t] EXCEPT !.pc = "copy", !.path = p,
                                                 !.fd = IF others = {} THEN "linked" ELSE "shared"]
                             ELSE IF s \in others THEN [req[s] EXCEPT !.fd = "shared"]
                             ELSE req[s]]
                /\ UNCHANGED <<writer, pending>>
           ELSE /\ Finish(t, "IOError")
                /\ UNCHANGED files
    /\ UNCHANGED <<dirs, images, now, nreq, accepted>>

\* A copy that stops short without an error.
UploadCopy_Truncated(t, ok, mixed) ==
    /\ req[t].op = "upload" /\ req[t].pc = "copy"
    /\ IF ok
       THEN /\ req' = [req EXCEPT ![t].pc = "insert", ![t].fd = "none"]
            /\ UNCHANGED <<writer, pending>>
       ELSE Finish(t, "IOError")
    /\ UNCHANGED <<dirs, files, images, now, nreq, accepted>>

\* Line 199: shutil.copyfileobj streams the upload into the open file.  A
\* writer that shared the file with another one may leave a mix of the two.
UploadCopy(t, ok, mixed) ==
    /\ req[t].op = "upload" /\ req[t].pc = "copy"
    /\ LET p == req[t].path
       IN  IF ok
           THEN /\ files' =
                     IF req[t].fd = "linked"
                     THEN [files EXCEPT ![p] = File("complete", req[t].data)]
                     ELSE IF req[t].fd = "shared"
                     THEN [files EXCEPT ![p] =
                             File(IF mixed THEN "garbled" ELSE "complete", req[t].data)]
                     ELSE files
                /\ req' = [req EXCEPT ![t].pc = "insert", ![t].fd = "none"]
                /\ UNCHANGED <<writer, pending>>
           ELSE /\ Finish(t, "IOError")
                /\ UNCHANGED files
    /\ UNCHANGED <<dirs, images, now, nreq, accepted>>

\* Lines 206-210: created_at is read from the clock, which does not run
\* backwards; the INSERT takes the write lock if the DELETE has not.
UploadInsert(t, tick) ==
    /\ req[t].op = "upload" /\ req[t].pc = "insert"
    /\ CanWrite(t)
    /\ now' = now + tick
    /\ IF InsertConflicts(View(t), req[t].user_id, req[t].idx)
       THEN Finish(t, "Conflict")
       ELSE /\ pending' = View(t) \cup
                  {Row(req[t].user_id, req[t].idx, req[t].path, utc_now_iso(now'),
                       NextRowid(View(t)), req[t].data)}
            /\ writer' = t
            /\ req' = [req EXCEPT ![t].pc = "commit"]
    /\ UNCHANGED <<dirs, files, images, nreq, accepted>>

\* Lines 211-213.
UploadCommit(t) ==
    /\ req[t].op = "upload" /\ req[t].pc = "commit"
    /\ images' = pending
    /\ writer' = 0
    /\ pending' = pending
    /\ req' = [req EXCEPT ![t].pc = "done", ![t].result = "ok"]
    /\ accepted' = [accepted EXCEPT ![req[t].user_id] = Append(@, req[t].data)]
    /\ UNCHANGED <<dirs, files, now, nreq>>

(***************************************************************************)
(* GET /users/{user_id}/images/{index}                                     *)
(***************************************************************************)
\* Lines 218-220.
GetStart(t, u, i) ==
    /\ Free(t)
    /\ nreq' = nreq + 1
    /\ LET r0 == [Idle EXCEPT !.op = "get", !.user_id = u, !.idx = i]
       IN  IF i < 0 \/ i >= MAX_IMAGES_PER_USER
           THEN req' = [req EXCEPT ![t] = [r0 EXCEPT !.pc = "done", !.result = "NotFound"]]
           ELSE req' = [req EXCEPT ![t] = [r0 EXCEPT !.pc = "get_select"]]
    /\ UNCHANGED <<dirs, files, images, writer, pending, now, accepted>>

\* Lines 222-230.
GetSelect(t) ==
    /\ req[t].op = "get" /\ req[t].pc = "get_select"
    /\ LET rows == RowsAt(View(t), req[t].user_id, req[t].idx)
       IN  IF rows = {}
           THEN req' = [req EXCEPT ![t].pc = "done", ![t].result = "NotFound"]
           ELSE req' = [req EXCEPT ![t].pc = "get_serve",
                                   ![t].path = (CHOOSE r \in rows : TRUE).file_path]
    /\ UNCHANGED <<dirs, files, images, writer, pending, now, nreq, accepted>>

\* Lines 232-237: the file is checked and served as it is at that moment.
GetServe(t) ==
    /\ req[t].op = "get" /\ req[t].pc = "get_serve"
    /\ IF ~isfile(files, req[t].path)
       THEN req' = [req EXCEPT ![t].pc = "done", ![t].result = "NotFound"]
       ELSE req' = [req EXCEPT ![t].pc = "done", ![t].result = "ok",
                               ![t].body = files[req[t].path]]
    /\ UNCHANGED <<dirs, files, images, writer, pending, now, nreq, accepted>>

(***************************************************************************)
(* GET /users/{user_id}/images                                             *)
(***************************************************************************)
\* Lines 242-244.
ListStart(t, u) ==
    /\ Free(t)
    /\ nreq' = nreq + 1
    /\ LET r0 == [Idle EXCEPT !.op = "list", !.user_id = u]
       IN  IF ~user_exists(dirs, u)
           THEN req' = [req EXCEPT ![t] = [r0 EXCEPT !.pc = "done", !.result = "UserNotFound"]]
           ELSE req' = [req EXCEPT ![t] = [r0 EXCEPT !.pc = "list_select"]]
    /\ UNCHANGED <<dirs, files, images, writer, pending, now, accepted>>

\* Lines 246-252.
ListSelect(t) ==
    /\ req[t].op = "list" /\ req[t].pc = "list_select"
    /\ req' = [req EXCEPT ![t].pc = "done", ![t].result = "ok",
                          ![t].indexes =
                              {r.image_index : r \in get_user_images(View(t), req[t].user_id)}]
    /\ UNCHANGED <<dirs, files, images, writer, pending, now, nreq, accepted>>

(***************************************************************************)
(* Specifications.                                                         *)
(***************************************************************************)
Next ==
    \/ \E u \in Users : create_user(u)
    \/ \E t \in Threads, u \in Users, f \in FileNameExts, c \in ContentTypes :
          nreq < MaxRequests /\ UploadStart(t, u, f, c)
    \/ \E t \in Threads : UploadPick(t)
    \/ \E t \in Threads : UploadDelSelect(t)
    \/ \E t \in Threads, ok \in BOOLEAN : UploadDelFile(t, ok)
    \/ \E t \in Threads : UploadDelRow(t)
    \/ \E t \in Threads : UploadLocked(t)
    \/ \E t \in Threads, ok \in BOOLEAN : UploadOpen(t, ok)
    \/ \E t \in Threads, ok \in BOOLEAN, mixed \in BOOLEAN : UploadCopy(t, ok, mixed)
    \/ \E t \in Threads, tick \in {0, 1} : UploadInsert(t, tick)
    \/ \E t \in Threads : UploadCommit(t)
    \/ \E t \in Threads, u \in Users, i \in Indexes :
          nreq < MaxRequests /\ GetStart(t, u, i)
    \/ \E t \in Threads : GetSelect(t)
    \/ \E t \in Threads : GetServe(t)
    \/ \E t \in Threads, u \in Users : nreq < MaxRequests /\ ListStart(t, u)
    \/ \E t \in Threads : ListSelect(t)

Spec == Init /\ [][Next]_vars

\* Requests served one at a time, at most max of them, for the given users
\* and indexes, with a disk that takes every write.
SeqNext(max, idxs, users) ==
    \/ \E u \in users : create_user(u)
    \/ \E t \in Threads, u \in users, f \in FileNameExts, c \in ContentTypes :
          nreq < max /\ AllFree /\ UploadStart(t, u, f, c)
    \/ \E t \in Threads : UploadPick(t)
    \/ \E t \in Threads : UploadDelSelect(t)
    \/ \E t \in Threads, ok \in BOOLEAN : UploadDelFile(t, ok)
    \/ \E t \in Threads : UploadDelRow(t)
    \/ \E t \in Threads : UploadOpen(t, TRUE)
    \/ \E t \in Threads : UploadCopy(t, TRUE, FALSE)
    \/ \E t \in Threads, tick \in {0, 1} : UploadInsert(t, tick)
    \/ \E t \in Threads : UploadCommit(t)
    \/ \E t \in Threads, u \in users, i \in idxs :
          nreq < max /\ AllFree /\ GetStart(t, u, i)
    \/ \E t \in Threads : GetSelect(t)
    \/ \E t \in Threads : GetServe(t)
    \/ \E t \in Threads, u \in users : nreq < max /\ AllFree /\ ListStart(t, u)
    \/ \E t \in Threads : ListSelect(t)

NextSeq == SeqNext(MaxSeqRequests, Indexes \cup {MAX_IMAGES_PER_USER - 1}, Users)

SpecSeq == InitSeq /\ [][NextSeq]_vars

\* One request of user u1 on any table of its rows: every set of occupied
\* indexes, with created_at and rowid rising with the index ("asc"); or as
\* they are after the slots were replaced in turn and the replacements of
\* slots 9 and 0 read the same clock value ("wrap": rows 9 and 0 are the
\* oldest, 9 inserted first); or rising, with the file of the oldest row lost
\* by an earlier upload whose write failed ("lost").
PickStamp(i, pat) ==
    IF pat = "wrap"
    THEN (IF i \in {0, MAX_IMAGES_PER_USER - 1} THEN 1 ELSE i + 1)
    ELSE i + 1

PickRowid(i, pat) ==
    IF pat = "wrap"
    THEN (IF i = MAX_IMAGES_PER_USER - 1 THEN 1 ELSE i + 2)
    ELSE i + 1

PickRows(u, S, pat) ==
    {Row(u, i, Path(u, i, ".png"), utc_now_iso(PickStamp(i, pat)), PickRowid(i, pat), i + 1) :
        i \in S}

PickFiles(tbl, pat) ==
    [p \in AllPaths |->
        IF pat = "lost" /\ tbl # {} /\ p = OldestRow(tbl).file_path
        THEN NoFile
        ELSE FilledFiles(tbl)[p]]

InitPick ==
    \E S \in SUBSET (0 .. MAX_IMAGES_PER_USER - 1), pat \in {"asc", "wrap", "lost"} :
        /\ dirs = {"u1"}
        /\ images = PickRows("u1", S, pat)
        /\ files = PickFiles(PickRows("u1", S, pat), pat)
        /\ writer = 0
        /\ pending = images
        /\ now = MAX_IMAGES_PER_USER
        /\ req = [t \in Threads |-> Idle]
        /\ nreq = 0
        /\ accepted = [u \in Users |->
                         IF u = "u1" THEN [i \in 1 .. Cardinality(S) |-> i] ELSE <<>>]

NextPick == SeqNext(MaxPickRequests, {0}, {"u1"})

SpecPick == InitPick /\ [][NextPick]_vars

\* What GET /users/{u}/images/{i} answers when nothing else runs: NoFile
\* stands for 404.
RetrieveNow(u, i) ==
    LET rows == RowsAt(images, u, i)
        p == (CHOOSE r \in rows : TRUE).file_path
    IN  IF i < 0 \/ i >= MAX_IMAGES_PER_USER THEN NoFile
        ELSE IF rows = {} THEN NoFile
        ELSE IF files[p].state = "absent" THEN NoFile
        ELSE files[p]

TypeOK ==
    /\ dirs \subseteq Users
    /\ writer \in Threads \cup {0}
    /\ \A r \in images : r.user_id \in Users
    /\ \A t \in Threads : req[t].op \in {"idle", "upload", "get", "list"}

(***************************************************************************)
(* Properties.                                                             *)
(***************************************************************************)
\* An upload that has chosen its index and has not responded yet.
InUpload(t) ==
    /\ req[t].op = "upload"
    /\ req[t].pc \in {"del_select", "del_file", "del_row", "open", "copy", "insert", "commit"}

UploadOk(t) == req[t].op = "upload" /\ req[t].pc = "done" /\ req[t].result = "ok"

\* C1: two uploads to the same user that overlap in time never hold the same
\* slot index for their two files.
C1_DistinctIndexes ==
    \A s, t \in Threads :
        (s # t /\ InUpload(s) /\ InUpload(t) /\ req[s].user_id = req[t].user_id)
            => req[s].idx # req[t].idx

\* C2: in every reachable state each user has at most MAX_IMAGES_PER_USER
\* rows, every row's index is in [0, MAX_IMAGES_PER_USER), and no two rows
\* share (user_id, image_index); the same holds of an open transaction.
C2_Capacity ==
    \A tbl \in {images, pending} :
        /\ \A u \in Users : Cardinality(get_user_images(tbl, u)) <= MAX_IMAGES_PER_USER
        /\ \A r \in tbl : r.image_index >= 0 /\ r.image_index < MAX_IMAGES_PER_USER
        /\ \A r1, r2 \in tbl :
              (r1.user_id = r2.user_id /\ r1.image_index = r2.image_index) => r1 = r2

\* A full user after one upload replaced a slot and another upload failed.
C2_Witness ==
    \E s, t \in Threads :
        /\ UploadOk(t)
        /\ Cardinality(get_user_images(images, req[t].user_id)) = MAX_IMAGES_PER_USER
        /\ req[s].op = "upload" /\ req[s].user_id = req[t].user_id
        /\ req[s].result \in {"IOError", "Conflict", "DatabaseLocked"}

\* The data of the last n uploads of a history.
LastOf(h, n) == {h[i] : i \in {j \in 1 .. Len(h) : j > Len(h) - n}}

\* The data a user's slots serve complete.
Retrievable(u) ==
    {RetrieveNow(u, i).data : i \in {j \in 0 .. MAX_IMAGES_PER_USER - 1 :
                                        RetrieveNow(u, j).state = "complete"}}

\* C3: with uploads one at a time, an upload to a full user takes the index
\* of a row with the smallest created_at; every row serves the content of the
\* upload that inserted it; and between requests the retrievable images are
\* exactly the last min(k, MAX_IMAGES_PER_USER) uploaded.
C3_Fifo ==
    /\ \A t \in Threads :
          (req[t].op = "upload" /\ req[t].pc = "del_select"
             /\ Cardinality(get_user_images(images, req[t].user_id)) = MAX_IMAGES_PER_USER)
          => \E r \in RowsAt(images, req[t].user_id, req[t].idx) :
                \A o \in get_user_images(images, req[t].user_id) :
                    ~TextLess(o.created_at, r.created_at)
    /\ AllFree =>
          \A u \in Users :
              /\ \A r \in get_user_images(images, u) :
                    RetrieveNow(u, r.image_index) = File("complete", r.by)
              /\ Retrievable(u) = LastOf(accepted[u], MAX_IMAGES_PER_USER)

\* Two uploads have replaced the two oldest images of a full user.
C3_Witness ==
    /\ AllFree
    /\ Len(accepted["u1"]) >= MAX_IMAGES_PER_USER + 2
    /\ \E t \in Threads : UploadOk(t) /\ req[t].old # NoPath /\ req[t].user_id = "u1"
    /\ Retrievable("u1") = LastOf(accepted["u1"], MAX_IMAGES_PER_USER)

\* C4: an upload to a user with fewer than MAX_IMAGES_PER_USER rows takes the
\* smallest index not occupied, whatever the occupied set, and neither
\* removes a file nor deletes a row.
C4_LowestFree ==
    \A t \in Threads :
        LET occupied == {r.image_index : r \in get_user_images(images, req[t].user_id)}
        IN  (req[t].op = "upload" /\ req[t].pc # "done"
               /\ Cardinality(occupied) < MAX_IMAGES_PER_USER)
            => /\ req[t].pc \notin {"del_file", "del_row"}
               /\ req[t].old = NoPath
               /\ req[t].pc # "pick" =>
                     /\ req[t].idx \in 0 .. MAX_IMAGES_PER_USER - 1
                     /\ req[t].idx \notin occupied
                     /\ \A i \in 0 .. req[t].idx - 1 : i \in occupied

\* Occupied {0, 2, 3}: the upload has taken index 1.
C4_Witness ==
    \E t \in Threads :
        /\ req[t].op = "upload" /\ req[t].pc = "open" /\ req[t].user_id = "u1"
        /\ {r.image_index : r \in get_user_images(images, "u1")} = {0, 2, 3}
        /\ req[t].idx = 1

\* C5: uploads made in parallel to a fresh user (no more than its capacity,
\* none failing on disk or timing out on the database lock) all succeed, on
\* distinct indexes, and afterwards each index serves the content of the
\* upload that was given it.
C5_ParallelUploads ==
    LET ups == {t \in Threads : req[t].op = "upload"}
    IN  (/\ AllFree
         /\ ups = Threads
         /\ \A t \in ups : req[t].user_id = "u2"
         /\ \A t \in ups : req[t].result \in {"ok", "Conflict"})
        => /\ \A t \in ups : req[t].result = "ok"
           /\ \A s, t \in ups : s # t => req[s].idx # req[t].idx
           /\ \A t \in ups : RetrieveNow("u2", req[t].idx) = File("complete", req[t].data)

\* C6: when an upload that replaced a slot completes, the reused index has
\* exactly one row, the row is the new upload's, and the index serves the new
\* upload's content.
C6_Replaced ==
    [][\A t \in Threads :
          (req[t].op = "upload" /\ req[t].pc = "commit" /\ req[t].old # NoPath
             /\ req'[t].pc = "done" /\ req'[t].result = "ok")
          => /\ Cardinality(RowsAt(images', req[t].user_id, req[t].idx)) = 1
             /\ \A r \in RowsAt(images', req[t].user_id, req[t].idx) :
                   /\ r.by = req[t].data
                   /\ r.file_path = req[t].path
                   /\ files'[r.file_path] = File("complete", req[t].data)]_vars

\* C7: when no request is in progress, every row's file_path names a file
\* that exists, and no two rows name the same file.
C7_BlobsExist ==
    AllFree =>
        /\ \A r \in images : files[r.file_path].state # "absent"
        /\ \A r1, r2 \in images : r1.file_path = r2.file_path => r1 = r2

\* C8: a retrieval answers NotFound exactly when it finds no row for the
\* index (or the index is out of range) or the row's file is missing;
\* otherwise it answers with the file at the row's file_path; and none of its
\* steps changes the table or the files.
C8_Retrieval ==
    [][\A t \in Threads :
          (req'[t].op = "get" /\ req'[t] # req[t])
          => /\ images' = images /\ files' = files /\ pending' = pending /\ dirs' = dirs
             /\ req[t].pc \in {"idle", "done"} =>
                   IF req'[t].idx < 0 \/ req'[t].idx >= MAX_IMAGES_PER_USER
                   THEN req'[t].pc = "done" /\ req'[t].result = "NotFound"
                   ELSE req'[t].pc = "get_select"
             /\ req[t].pc = "get_select" =>
                   IF \E r \in images : r.user_id = req[t].user_id /\ r.image_index = req[t].idx
                   THEN /\ req'[t].pc = "get_serve"
                        /\ \E r \in images :
                              /\ r.user_id = req[t].user_id /\ r.image_index = req[t].idx
                              /\ req'[t].path = r.file_path
                   ELSE req'[t].pc = "done" /\ req'[t].result = "NotFound"
             /\ req[t].pc = "get_serve" =>
                   /\ req'[t].pc = "done"
                   /\ IF files[req[t].path].state = "absent"
                      THEN req'[t].result = "NotFound"
                      ELSE req'[t].result = "ok" /\ req'[t].body = files[req[t].path]]_vars

\* A retrieval found the row and answered NotFound because its file is gone.
C8_Witness ==
    \E t \in Threads :
        /\ req[t].op = "get" /\ req[t].pc = "done" /\ req[t].result = "NotFound"
        /\ req[t].path # NoPath
        /\ files[req[t].path].state = "absent"

\* C9: an upload whose blob write failed has inserted no row: neither the
\* table nor an open transaction holds a row of it.
C9_NoRowAfterFailedWrite ==
    \A t \in Threads :
        (req[t].op = "upload" /\ req[t].result = "IOError")
            => \A r \in images \cup pending : r.by # req[t].data

\* An upload failed while copying: its half-written file is on disk.
C9_Witness ==
    \E t \in Threads :
        /\ req[t].op = "upload" /\ req[t].result = "IOError"
        /\ req[t].path # NoPath
        /\ files[req[t].path] = File("partial", req[t].data)

\* C10: an upload that failed part-way through its write leaves no row whose
\* file_path names the half-written file.
C10_NoHalfWrittenReferenced ==
    \A t \in Threads :
        (req[t].op = "upload" /\ req[t].result = "IOError" /\ req[t].path # NoPath)
            => ~\E r \in images :
                  /\ r.file_path = req[t].path
                  /\ files[r.file_path] = File("partial", req[t].data)

\* C11: an upload at a write statement never finds the write lock held by the
\* open transaction of an upload to a different user that is streaming its
\* blob.
C11_NoCrossUserBlocking ==
    \A s, t \in Threads :
        (/\ req[t].op = "upload" /\ req[t].pc \in {"del_row", "insert"}
         /\ req[s].op = "upload" /\ req[s].pc = "copy" /\ writer = s /\ s # t)
            => req[s].user_id = req[t].user_id

\* C12: an upload whose INSERT collided with an existing row has started
\* over from a fresh snapshot at least once before it reports the failure.
C12_RetryOnConflict ==
    \A t \in Threads :
        (req[t].op = "upload" /\ req[t].result = "Conflict") => req[t].attempts >= 2
\* The thread whose request starts in this step.
Starts(t) == nreq' = nreq + 1 /\ req'[t] # req[t]

\* C13: an upload or a listing for a user that was never created ends at once
\* with UserNotFound and changes neither the directories, the files nor the
\* table; for a created user it never ends with UserNotFound; a created
\* user stays created.
C13_UnknownUser ==
    [][/\ dirs \subseteq dirs'
       /\ \A t \in Threads :
            (Starts(t) /\ req'[t].op \in {"upload", "list"}) =>
                IF req'[t].user_id \notin dirs
                THEN /\ req'[t].pc = "done" /\ req'[t].result = "UserNotFound"
                     /\ UNCHANGED <<dirs, files, images, pending, writer>>
                ELSE req'[t].result # "UserNotFound"
       /\ \A t \in Threads :
            (req[t].result # "UserNotFound" /\ ~Starts(t)) => req'[t].result # "UserNotFound"]_vars

\* A request failed for an unknown user, and the user was created afterwards.
C13_Witness ==
    \E t \in Threads :
        /\ req[t].op \in {"upload", "list"} /\ req[t].result = "UserNotFound"
        /\ req[t].user_id \in dirs

\* C14: an upload of a created user with a content type outside the allowed
\* set ends at once with UnsupportedType, before the table or the files are
\* read or written, whatever the number of images of the user.
C14_BadTypeRejectedFirst ==
    [][\A t \in Threads :
         (/\ Starts(t) /\ req'[t].op = "upload"
          /\ req'[t].user_id \in dirs
          /\ req'[t].ct \notin {"image/png", "image/jpeg", "image/gif", "image/webp", "image/bmp"})
             => /\ req'[t].pc = "done" /\ req'[t].result = "UnsupportedType"
                /\ UNCHANGED <<dirs, files, images, pending, writer, now>>]_vars

\* A rejected upload of a user whose ten slots are taken.
C14_Witness ==
    \E t \in Threads :
        /\ req[t].op = "upload" /\ req[t].result = "UnsupportedType"
        /\ Cardinality(get_user_images(images, req[t].user_id)) = MAX_IMAGES_PER_USER

\* C15: with requests one at a time, a successful upload leaves a row at the
\* index it returns that carries its content, and a retrieval of an index
\* answers with the complete content of the upload that inserted the row of
\* that index: upload X, then retrieve the returned index, yields X, for an
\* empty, a partly filled and a full user.
C15_RoundTrip ==
    /\ \A t \in Threads :
          UploadOk(t) =>
              \E r \in RowsAt(images, req[t].user_id, req[t].idx) : r.by = req[t].data
    /\ \A t \in Threads :
          (req[t].op = "get" /\ req[t].pc = "done") =>
              \A r \in RowsAt(images, req[t].user_id, req[t].idx) :
                  req[t].result = "ok" /\ req[t].body = File("complete", r.by)

\* A retrieval returned the content of an upload that replaced a slot of a
\* full user.
C15_Witness ==
    \E t \in Threads :
        /\ req[t].op = "get" /\ req[t].result = "ok"
        /\ req[t].body.state = "complete" /\ req[t].body.data > MAX_IMAGES_PER_USER
        /\ Len(accepted[req[t].user_id]) > MAX_IMAGES_PER_USER

\* C16: whenever a worker is free and a created user has images, a clear-all
\* request for that user can be started (and would then delete the user's
\* rows and files).
C16_ClearAllOffered ==
    \A u \in dirs :
        (nreq < MaxRequests /\ get_user_images(images, u) # {}) =>
            ENABLED (Next /\ \E t \in Threads :
                                req'[t].op = "clear" /\ req'[t].user_id = u)

\* The uploads in flight that a row belongs to.
Owners(r) == {t \in Threads : InUpload(t) /\ req[t].data = r.by}

MinStampRows(rows) == {r \in rows : \A s \in rows : ~TextLess(s.created_at, r.created_at)}

\* C18 as claimed: an upload to a full user takes the smallest index among
\* the rows that share the smallest created_at.
C18_TieMinIndex ==
    \A t \in Threads :
        LET rows == get_user_images(images, req[t].user_id)
        IN  (/\ req[t].op = "upload" /\ req[t].pc = "del_select"
             /\ Cardinality(rows) = MAX_IMAGES_PER_USER)
                => req[t].idx = Min({r.image_index : r \in MinStampRows(rows)})

\* C18 as amended: an upload to a full user takes the index of the row that
\* was inserted first (smallest rowid) among the rows that share the smallest
\* created_at.
C18_TieFirstInserted ==
    \A t \in Threads :
        LET rows == get_user_images(images, req[t].user_id)
        IN  (/\ req[t].op = "upload" /\ req[t].pc = "del_select"
             /\ Cardinality(rows) = MAX_IMAGES_PER_USER)
                => \E r \in MinStampRows(rows) :
                      /\ r.image_index = req[t].idx
                      /\ \A s \in MinStampRows(rows) : r.rowid <= s.rowid

\* Rows 0 and 9 of a full user share the smallest created_at, row 9 was
\* inserted first, and the upload has taken index 9.
C18_Witness ==
    \E t \in Threads :
        LET rows == get_user_images(images, req[t].user_id)
        IN  /\ req[t].op = "upload" /\ req[t].pc = "del_select"
            /\ Cardinality(rows) = MAX_IMAGES_PER_USER
            /\ Cardinality(MinStampRows(rows)) >= 2
            /\ req[t].idx # Min({r.image_index : r \in MinStampRows(rows)})

\* C19: with one request at a time and a disk that takes the new file, an
\* upload whose evicted row names a file that is missing, or whose removal
\* fails, does not fail: the old row is deleted, and the upload ends with its
\* own row at the reused index, naming its completely written file.
C19_EvictionToleratesLostBlob ==
    \A t \in Threads :
        (req[t].op = "upload" /\ req[t].rm \in {"missing", "failed"}) =>
            LET mine == RowsAt(View(t), req[t].user_id, req[t].idx)
            IN  /\ req[t].result \in {"none", "ok"}
                /\ req[t].pc \in {"open", "copy", "insert"} => mine = {}
                /\ req[t].pc = "done" =>
                      /\ mine # {}
                      /\ \A r \in mine : r.by = req[t].data /\ r.file_path = req[t].path
                      /\ files[req[t].path] = File("complete", req[t].data)
                      /\ Cardinality(get_user_images(images, req[t].user_id))
                            = MAX_IMAGES_PER_USER

\* An upload replaced the oldest row of a full user although the row's file
\* was already gone.
C19_Witness ==
    \E t \in Threads :
        /\ UploadOk(t) /\ req[t].rm = "missing"
        /\ \E r \in RowsAt(images, req[t].user_id, req[t].idx) : r.by = req[t].data

\* C20: a retrieval that runs next to uploads none of which has failed
\* answers NotFound or with the complete content of one upload; it never
\* serves a file that is still being written.
C20_RetrievalNeverHalfWritten ==
    \A t \in Threads :
        (/\ req[t].op = "get" /\ req[t].pc = "done"
         /\ \A s \in Threads \ {t} : req[s].op = "upload" => req[s].result \in {"none", "ok"})
            => \/ req[t].result = "NotFound"
               \/ req[t].result = "ok" /\ req[t].body.state = "complete"

====
